---- MODULE Spec2Model ----
(***************************************************************************)
(* Model of src/main.js, the orchestration script of the three.js model    *)
(* viewer: the scene, the four lights, the lil-gui panel, the GLTF load    *)
(* callbacks, the render loop and the resize listener.                     *)
(*                                                                         *)
(* JavaScript runs each callback to completion on one thread, so every     *)
(* callback is one action.  Slider values, intensities, metalness and      *)
(* roughness are in tenths (0.4 is 4); lengths are in scene units.         *)
(***************************************************************************)
EXTENDS Integers, Sequences, FiniteSets, TLC

VARIABLES
    loadState,        \* the GLTF request: "pending", "success" or "failed"
    loadRequests,     \* number of loader.load calls issued
    sceneChildren,    \* scene.children, in insertion order
    intensity,        \* intensity of each light
    gui,              \* the folders of the panel, in creation order
    materials,        \* the material objects of the loaded asset, by reference
    object,           \* gltf.scene once the success callback has received it
    cameraZ,          \* camera.position.z (the camera stays on the z axis)
    viewport,         \* window.innerWidth, window.innerHeight
    cameraAspect,     \* camera.aspect as the pair it is the quotient of
    rendererSize,     \* size last given to renderer.setSize
    rafPending,       \* a requestAnimationFrame(animate) callback is queued
    frame,            \* parity of the number of frames run
    callsSinceRender, \* calls made since the latest renderer.render, it included
    lastFrameCalls,   \* calls from the previous render to the latest one
    drawn,            \* scene.children as the latest renderer.render drew them
    interactions      \* number of panel controls the user has changed

vars == <<loadState, loadRequests, sceneChildren, intensity, gui, materials,
          object, cameraZ, viewport, cameraAspect, rendererSize, rafPending,
          frame, callsSinceRender, lastFrameCalls, drawn, interactions>>

----------------------------------------------------------------------------
(* Bounds of the model *)

MaxChildren == 2

MaxInteractions == 1

MaxHalf == 6

----------------------------------------------------------------------------
(* Values *)

Undefined == -1

Gray == 8421504

minDistance == 2

maxDistance == 20

InitialCameraZ == 5

Range(s) == {s[i] : i \in DOMAIN s}

Last(s) == s[Len(s)]

Max2(a, b) == IF a >= b THEN a ELSE b

Min2(a, b) == IF a <= b THEN a ELSE b

LightNames == {"ambientLight", "mainLight", "fillLight", "topLight"}

LightParams == {"ambientIntensity", "mainIntensity", "fillIntensity", "topIntensity"}

InitialIntensity ==
    [l \in LightNames |->
        CASE l = "ambientLight" -> 4
          [] l = "mainLight" -> 8
          [] l = "fillLight" -> 4
          [] l = "topLight" -> 3]

InitialScene == <<"ambientLight", "mainLight", "fillLight", "topLight">>

Viewports == {<<800, 600>>, <<1280, 720>>}

InitialViewport == <<800, 600>>

----------------------------------------------------------------------------
(* three.js vectors and boxes *)

VecSub(a, b) == <<a[1] - b[1], a[2] - b[2], a[3] - b[3]>>

VecAdd(a, b) == <<a[1] + b[1], a[2] + b[2], a[3] + b[3]>>

Box3GetCenter(box) ==
    <<(box.min[1] + box.max[1]) \div 2,
      (box.min[2] + box.max[2]) \div 2,
      (box.min[3] + box.max[3]) \div 2>>

Box3GetSize(box) == VecSub(box.max, box.min)

MathMax3(a, b, c) == Max2(a, Max2(b, c))

(* scene.add(node): the node becomes the last child *)
SceneAdd(children, node) == Append(children, node)

(* OrbitControls.update() with no pointer input: the camera is on the z    *)
(* axis and the target is the origin, so the distance is z; it is clamped  *)
(* to [minDistance, maxDistance] and written back to the camera.           *)
ControlsUpdate(z) == Max2(minDistance, Min2(maxDistance, z))

----------------------------------------------------------------------------
(* The assets the loader can deliver *)

MaterialRefs == {"m1", "m2", "m3"}

(* m1: a standard material whose metalness is 0; m2: a basic material,     *)
(* with a colour and neither metalness nor roughness; m3: a material with  *)
(* no colour property, a metalness and no roughness.                       *)
MaterialPool ==
    [m \in MaterialRefs |->
        CASE m = "m1" -> [color |-> 16777215, metalness |-> 0, roughness |-> 10,
                          wireframe |-> FALSE]
          [] m = "m2" -> [color |-> 16777215, metalness |-> Undefined,
                          roughness |-> Undefined, wireframe |-> FALSE]
          [] m = "m3" -> [color |-> Undefined, metalness |-> 5,
                          roughness |-> Undefined, wireframe |-> TRUE]]

Group == [isMesh |-> FALSE, material |-> "none", castShadow |-> FALSE,
          receiveShadow |-> FALSE]

Mesh(m) == [isMesh |-> TRUE, material |-> m, castShadow |-> FALSE,
            receiveShadow |-> FALSE]

(* the descendants of the root group: up to MaxChildren meshes *)
ChildLists == UNION {[1..n -> {Mesh(m) : m \in MaterialRefs}] : n \in 0..MaxChildren}

(* half extents of a box: at most one axis is long *)
HalfExtents ==
    {h \in [1..3 -> {1, MaxHalf}] : Cardinality({a \in 1..3 : h[a] # 1}) <= 1}

BoxCenters == {<<1, 2, 3>>}

Boxes == {[min |-> VecSub(c, h), max |-> VecAdd(c, h)] :
            c \in BoxCenters, h \in HalfExtents}

MeshMaterials(nodes) == {nodes[i].material : i \in {j \in DOMAIN nodes : nodes[j].isMesh}}

(* gltf.scene: a group, its descendants in traversal order, its materials  *)
Assets ==
    {[nodes |-> <<Group>> \o children,
      box |-> box,
      materials |-> [m \in MeshMaterials(children) |-> MaterialPool[m]]] :
        children \in ChildLists, box \in Boxes}

NoObject ==
    [exists |-> FALSE, nodes |-> <<>>, box |-> [min |-> <<0, 0, 0>>, max |-> <<0, 0, 0>>],
     position |-> <<0, 0, 0>>, scale |-> <<10, 10, 10>>, rotation |-> <<0, 0, 0>>]

NoMaterials == [m \in {} |-> MaterialPool["m1"]]

----------------------------------------------------------------------------
(* JavaScript values and conversions *)

Obj(r) == [type |-> "object", num |-> 0, ref |-> r]

Digits == <<"0", "1", "2", "3", "4", "5", "6", "7", "8", "9">>

RECURSIVE NumStr(_)
NumStr(n) == IF n < 10 THEN Digits[n + 1] ELSE NumStr(n \div 10) \o Digits[(n % 10) + 1]

(* String(v + 1): a number is incremented, an object is converted to the   *)
(* string "[object Object]" and "1" is appended.                           *)
JSPlusOneString(v) ==
    IF v.type = "number" THEN NumStr(v.num + 1) ELSE "[object Object]" \o "1"

(* mutant: an array push, which keeps duplicates *)
ArrayPush(s, x) == Append(s, x)

(* Set.prototype.add: insertion order is kept, a member is not added again *)
SetAdd(s, x) == IF x \in Range(s) THEN s ELSE Append(s, x)

(* Set.prototype.forEach calls back with (value, key, set) and the key of  *)
(* a Set entry is the value itself.                                        *)
SetForEachKey(s, i) == Obj(s[i])

----------------------------------------------------------------------------
(* The panel *)

LightingFolder ==
    [title |-> "Lighting", kind |-> "lighting", target |-> "lights",
     params |-> [p \in LightParams |->
                    CASE p = "ambientIntensity" -> InitialIntensity["ambientLight"]
                      [] p = "mainIntensity" -> InitialIntensity["mainLight"]
                      [] p = "fillIntensity" -> InitialIntensity["fillLight"]
                      [] p = "topIntensity" -> InitialIntensity["topLight"]],
     controls |-> <<"ambientIntensity", "mainIntensity", "fillIntensity", "topIntensity">>]

(* mutant: the fill control's callback writes the main light *)
LightingOnChangeCopied(param, value, lights) ==
    CASE param = "ambientIntensity" -> [lights EXCEPT !["ambientLight"] = value]
      [] param = "mainIntensity" -> [lights EXCEPT !["mainLight"] = value]
      [] param = "fillIntensity" -> [lights EXCEPT !["mainLight"] = value]
      [] param = "topIntensity" -> [lights EXCEPT !["topLight"] = value]

(* the four onChange callbacks of the lighting folder *)
LightingOnChange(param, value, lights) ==
    CASE param = "ambientIntensity" -> [lights EXCEPT !["ambientLight"] = value]
      [] param = "mainIntensity" -> [lights EXCEPT !["mainLight"] = value]
      [] param = "fillIntensity" -> [lights EXCEPT !["fillLight"] = value]
      [] param = "topIntensity" -> [lights EXCEPT !["topLight"] = value]

(* object.traverse(callback) over the nodes from index i on: st holds the  *)
(* nodes, the material objects and the Set of materials seen so far        *)
RECURSIVE Traverse(_, _)
Traverse(st, i) ==
    IF i > Len(st.nodes) THEN st
    ELSE LET child == st.nodes[i]
             m == child.material
         IN IF child.isMesh
            THEN Traverse(
                   [nodes |-> [st.nodes EXCEPT ![i].castShadow = TRUE,
                                               ![i].receiveShadow = TRUE],
                    mats |-> IF st.mats[m].color = Undefined
                             THEN [st.mats EXCEPT ![m].color = Gray]
                             ELSE st.mats,
                    set |-> SetAdd(st.set, m)],
                   i + 1)
            ELSE Traverse(st, i + 1)

(* mutant: the controls are added when the property is truthy *)
MaterialFolderTruthy(material, index, mats) ==
    LET mat == mats[material]
        metal == IF mat.metalness \notin {Undefined, 0} THEN <<"metalness">> ELSE <<>>
        rough == IF mat.roughness \notin {Undefined, 0} THEN <<"roughness">> ELSE <<>>
    IN [title |-> "Material " \o JSPlusOneString(index),
        kind |-> "material",
        target |-> material,
        params |-> [color |-> mat.color,
                    metalness |-> IF mat.metalness # Undefined THEN mat.metalness ELSE 2,
                    roughness |-> IF mat.roughness # Undefined THEN mat.roughness ELSE 8,
                    wireframe |-> mat.wireframe],
        controls |-> <<"color">> \o metal \o rough \o <<"wireframe">>]

(* the body of materials.forEach((material, index) => ...): one folder     *)
MaterialFolder(material, index, mats) ==
    LET mat == mats[material]
        metal == IF mat.metalness # Undefined THEN <<"metalness">> ELSE <<>>
        rough == IF mat.roughness # Undefined THEN <<"roughness">> ELSE <<>>
    IN [title |-> "Material " \o JSPlusOneString(index),
        kind |-> "material",
        target |-> material,
        params |-> [color |-> mat.color,
                    metalness |-> IF mat.metalness # Undefined THEN mat.metalness ELSE 2,
                    roughness |-> IF mat.roughness # Undefined THEN mat.roughness ELSE 8,
                    wireframe |-> mat.wireframe],
        controls |-> <<"color">> \o metal \o rough \o <<"wireframe">>]

MaterialFolders(set, mats) ==
    [i \in 1..Len(set) |-> MaterialFolder(set[i], SetForEachKey(set, i), mats)]

ModelFolder ==
    [title |-> "Model", kind |-> "model", target |-> "object",
     params |-> [scale |-> 10, rotationX |-> 0, rotationY |-> 0, rotationZ |-> 0],
     controls |-> <<"scale", "rotationX", "rotationY", "rotationZ">>]

(* mutant: the Model folder is built by the script, not by the callback   *)
GuiAtStartWithModel == <<LightingFolder, ModelFolder>>

(* the folders the script has created when it has run to its end *)
GuiAtStart == <<LightingFolder>>

(* the onChange callbacks of a material folder *)
MaterialOnChange(control, value, material, mats) ==
    CASE control = "color" -> [mats EXCEPT ![material].color = value]
      [] control = "metalness" -> [mats EXCEPT ![material].metalness = value]
      [] control = "roughness" -> [mats EXCEPT ![material].roughness = value]
      [] control = "wireframe" -> [mats EXCEPT ![material].wireframe = value]

(* the onChange callbacks of the Model folder *)
ModelOnChange(control, value, obj) ==
    CASE control = "scale" -> [obj EXCEPT !.scale = <<value, value, value>>]
      [] control = "rotationX" -> [obj EXCEPT !.rotation[1] = value]
      [] control = "rotationY" -> [obj EXCEPT !.rotation[2] = value]
      [] control = "rotationZ" -> [obj EXCEPT !.rotation[3] = value]

(* the values a user can give a control: the ends of its range *)
ControlValues(control) ==
    CASE control \in LightParams -> {0, 10}
      [] control \in {"metalness", "roughness"} -> {0, 10}
      [] control = "color" -> {16711680}
      [] control = "wireframe" -> {TRUE, FALSE}
      [] control = "scale" -> {20}
      [] control \in {"rotationX", "rotationY", "rotationZ"} -> {62}

----------------------------------------------------------------------------
(* State after the script has run to its end, the first animate() included *)

Init ==
    /\ loadState = "pending"
    /\ loadRequests = 1
    /\ sceneChildren = InitialScene
    /\ intensity = InitialIntensity
    /\ gui = GuiAtStart
    /\ materials = NoMaterials
    /\ object = NoObject
    /\ cameraZ = ControlsUpdate(InitialCameraZ)
    /\ viewport = InitialViewport
    /\ cameraAspect = InitialViewport
    /\ rendererSize = InitialViewport
    /\ rafPending = TRUE
    /\ frame = 1
    /\ callsSinceRender = <<"animate:renderer.render">>
    /\ lastFrameCalls = <<"animate:controls.update", "animate:renderer.render">>
    /\ drawn = InitialScene
    /\ interactions = 0

----------------------------------------------------------------------------
(* The callbacks *)

(* mutant: the object is never added to the scene *)
ObjectNotAdded(children) == children

(* line 179: scene.add(object) *)
AddObjectToScene(children) == SceneAdd(children, "object")

(* loader.load success callback, delivered once while the request is pending *)
OnLoad(gltf) ==
    /\ loadState = "pending"
    /\ LET box == gltf.box
           center == Box3GetCenter(box)
           t == Traverse([nodes |-> gltf.nodes, mats |-> gltf.materials, set |-> <<>>], 1)
           withGround == SceneAdd(sceneChildren, "ground")
           size == Box3GetSize(box)
           maxDim == MathMax3(size[1], size[2], size[3])
       IN /\ object' = [exists |-> TRUE, nodes |-> t.nodes, box |-> box,
                        position |-> VecSub(<<0, 0, 0>>, center),
                        scale |-> <<10, 10, 10>>, rotation |-> <<0, 0, 0>>]
          /\ materials' = t.mats
          /\ gui' = gui \o MaterialFolders(t.set, t.mats) \o <<ModelFolder>>
          /\ sceneChildren' = AddObjectToScene(withGround)
          /\ cameraZ' = ControlsUpdate(maxDim * 2)
    /\ loadState' = "success"
    /\ callsSinceRender' = Append(callsSinceRender, "onLoad:controls.update")
    /\ UNCHANGED <<loadRequests, intensity, viewport, cameraAspect, rendererSize,
                   rafPending, frame, lastFrameCalls, drawn, interactions>>

(* mutant: the ground plane is added whatever the outcome of the load *)
OnErrorAddsGround ==
    /\ loadState = "pending"
    /\ loadState' = "failed"
    /\ sceneChildren' = SceneAdd(sceneChildren, "ground")
    /\ callsSinceRender' = Append(callsSinceRender, "onError:console.error")
    /\ UNCHANGED <<loadRequests, intensity, gui, materials, object,
                   cameraZ, viewport, cameraAspect, rendererSize, rafPending, frame,
                   lastFrameCalls, drawn, interactions>>

(* loader.load error callback *)
OnError ==
    /\ loadState = "pending"
    /\ loadState' = "failed"
    /\ callsSinceRender' = Append(callsSinceRender, "onError:console.error")
    /\ UNCHANGED <<loadRequests, sceneChildren, intensity, gui, materials, object,
                   cameraZ, viewport, cameraAspect, rendererSize, rafPending, frame,
                   lastFrameCalls, drawn, interactions>>

(* mutant: the frame does not request the next one *)
animateOnce ==
    /\ rafPending
    /\ rafPending' = FALSE
    /\ cameraZ' = ControlsUpdate(cameraZ)
    /\ drawn' = sceneChildren
    /\ frame' = 1 - frame
    /\ lastFrameCalls' = callsSinceRender
                           \o <<"animate:controls.update", "animate:renderer.render">>
    /\ callsSinceRender' = <<"animate:renderer.render">>
    /\ UNCHANGED <<loadState, loadRequests, sceneChildren, intensity, gui, materials,
                   object, viewport, cameraAspect, rendererSize, interactions>>

(* mutant: the frame draws without advancing the controller *)
animateNoUpdate ==
    /\ rafPending
    /\ rafPending' = TRUE
    /\ drawn' = sceneChildren
    /\ frame' = 1 - frame
    /\ lastFrameCalls' = callsSinceRender \o <<"animate:renderer.render">>
    /\ callsSinceRender' = <<"animate:renderer.render">>
    /\ UNCHANGED <<loadState, loadRequests, sceneChildren, intensity, gui, materials,
                   object, cameraZ, viewport, cameraAspect, rendererSize, interactions>>

(* one frame: requestAnimationFrame(animate); controls.update(); render    *)
animate ==
    /\ rafPending
    /\ rafPending' = TRUE
    /\ cameraZ' = ControlsUpdate(cameraZ)
    /\ drawn' = sceneChildren
    /\ frame' = 1 - frame
    /\ lastFrameCalls' = callsSinceRender
                           \o <<"animate:controls.update", "animate:renderer.render">>
    /\ callsSinceRender' = <<"animate:renderer.render">>
    /\ UNCHANGED <<loadState, loadRequests, sceneChildren, intensity, gui, materials,
                   object, viewport, cameraAspect, rendererSize, interactions>>

(* the window's resize listener, after the viewport has changed to v *)
Resize(v) ==
    /\ v # viewport
    /\ viewport' = v
    /\ cameraAspect' = v
    /\ rendererSize' = v
    /\ UNCHANGED <<loadState, loadRequests, sceneChildren, intensity, gui, materials,
                   object, cameraZ, rafPending, frame, callsSinceRender,
                   lastFrameCalls, drawn, interactions>>

(* A control of folder i is given a new value: lil-gui stores it in the    *)
(* parameter bag and then calls the control's onChange with it.            *)
HasControl(i, control) ==
    /\ i \in DOMAIN gui
    /\ control \in Range(gui[i].controls)

LightingChange(i, param, value) ==
    /\ interactions < MaxInteractions
    /\ HasControl(i, param)
    /\ gui[i].kind = "lighting"
    /\ gui[i].params[param] # value
    /\ gui' = [gui EXCEPT ![i].params[param] = value]
    /\ intensity' = LightingOnChange(param, value, intensity)
    /\ interactions' = interactions + 1
    /\ UNCHANGED <<loadState, loadRequests, sceneChildren, materials, object, cameraZ,
                   viewport, cameraAspect, rendererSize, rafPending, frame,
                   callsSinceRender, lastFrameCalls, drawn>>

MaterialChange(i, control, value) ==
    /\ interactions < MaxInteractions
    /\ HasControl(i, control)
    /\ gui[i].kind = "material"
    /\ gui[i].params[control] # value
    /\ gui' = [gui EXCEPT ![i].params[control] = value]
    /\ materials' = MaterialOnChange(control, value, gui[i].target, materials)
    /\ interactions' = interactions + 1
    /\ UNCHANGED <<loadState, loadRequests, sceneChildren, intensity, object, cameraZ,
                   viewport, cameraAspect, rendererSize, rafPending, frame,
                   callsSinceRender, lastFrameCalls, drawn>>

ModelChange(i, control, value) ==
    /\ interactions < MaxInteractions
    /\ HasControl(i, control)
    /\ gui[i].kind = "model"
    /\ gui[i].params[control] # value
    /\ gui' = [gui EXCEPT ![i].params[control] = value]
    /\ object' = ModelOnChange(control, value, object)
    /\ interactions' = interactions + 1
    /\ UNCHANGED <<loadState, loadRequests, sceneChildren, intensity, materials, cameraZ,
                   viewport, cameraAspect, rendererSize, rafPending, frame,
                   callsSinceRender, lastFrameCalls, drawn>>

AllControls ==
    LightParams \cup {"color", "metalness", "roughness", "wireframe", "scale",
                      "rotationX", "rotationY", "rotationZ"}

(* a material or Model control fires its onChange *)
MaterialOrModelChange ==
    \E i \in DOMAIN gui, control \in AllControls :
        \E value \in ControlValues(control) :
            \/ MaterialChange(i, control, value)
            \/ ModelChange(i, control, value)

Next ==
    \/ \E gltf \in Assets : OnLoad(gltf)
    \/ OnError
    \/ animate
    \/ \E v \in Viewports : Resize(v)
    \/ \E i \in DOMAIN gui, param \in LightParams :
         \E value \in ControlValues(param) : LightingChange(i, param, value)
    \/ \E i \in DOMAIN gui, control \in {"color", "metalness", "roughness", "wireframe"} :
         \E value \in ControlValues(control) : MaterialChange(i, control, value)
    \/ \E i \in DOMAIN gui, control \in {"scale", "rotationX", "rotationY", "rotationZ"} :
         \E value \in ControlValues(control) : ModelChange(i, control, value)

Spec == Init /\ [][Next]_vars

(* the host calls a queued animation-frame callback on its next frame *)
FairSpec == Spec /\ WF_vars(animate)

----------------------------------------------------------------------------
(* Properties *)

Count(seq, x) == Cardinality({i \in DOMAIN seq : seq[i] = x})

FoldersOfKind(kind) == {i \in DOMAIN gui : gui[i].kind = kind}

MaterialOrModelFolders == FoldersOfKind("material") \cup FoldersOfKind("model")

LightingParams == gui[CHOOSE i \in FoldersOfKind("lighting") : TRUE].params

(* the light each control of the Lighting folder is labelled with *)
LightOf(param) ==
    CASE param = "ambientIntensity" -> "ambientLight"
      [] param = "mainIntensity" -> "mainLight"
      [] param = "fillIntensity" -> "fillLight"
      [] param = "topIntensity" -> "topLight"

MaxDimOf(box) ==
    LET size == VecSub(box.max, box.min)
    IN CHOOSE d \in Range(size) : \A e \in Range(size) : d >= e

IsUpdate(call) == call \in {"animate:controls.update", "onLoad:controls.update"}

(* C1: a material folder or the Model folder exists only once the load-    *)
(* success callback has run; while the load is pending or has failed no    *)
(* material, scale or rotation callback can fire; and every such folder    *)
(* refers to a material, or to a root object, that exists.                 *)
C1_PanelOnlyAfterLoad ==
    /\ MaterialOrModelFolders # {} => loadState = "success"
    /\ loadState # "success" => ~ENABLED MaterialOrModelChange
    /\ \A i \in FoldersOfKind("material") : gui[i].target \in DOMAIN materials
    /\ \A i \in FoldersOfKind("model") :
           object.exists /\ Count(sceneChildren, "object") >= 1

C1_Witness ==
    /\ loadState = "success"
    /\ \E i \in FoldersOfKind("material") :
           /\ gui[i].params.color = 16711680
           /\ materials[gui[i].target].color = 16711680

(* C2: once the load has failed, the scene holds exactly the four lights   *)
(* (no ground plane, no loaded object), there is no material or Model      *)
(* folder, one load only has been issued, and frames keep occurring.       *)
C2_FailureKeepsPreLoadState ==
    /\ [](loadState = "failed" =>
            /\ sceneChildren = InitialScene
            /\ MaterialOrModelFolders = {}
            /\ ~object.exists
            /\ loadRequests = 1
            /\ rafPending)
    /\ \A k \in {0, 1} : (loadState = "failed" /\ frame = k) ~> (frame # k)

C2_Witness ==
    /\ loadState = "failed"
    /\ "onError:console.error" \in Range(lastFrameCalls)
    /\ drawn = InitialScene

(* C3: the scene holds no loaded-object root until the load has succeeded  *)
(* and exactly one afterwards, whatever panel changes, resizes and frames  *)
(* occur.                                                                  *)
C3_OneRootAfterLoad ==
    Count(sceneChildren, "object") = IF loadState = "success" THEN 1 ELSE 0

C3_Witness ==
    /\ loadState = "success"
    /\ Count(sceneChildren, "object") = 1
    /\ object.rotation # <<0, 0, 0>>
    /\ viewport # InitialViewport
    /\ "object" \in Range(drawn)

(* C4: a frame callback is always queued and, frames being scheduled       *)
(* fairly, frames occur infinitely often whether the load is pending,      *)
(* never completes, succeeds or fails; a frame drawn before the load has  *)
(* succeeded draws a scene without the loaded object.                      *)
C4_RenderLoopNeverStops ==
    /\ []rafPending
    /\ []<>(frame = 0)
    /\ []<>(frame = 1)
    /\ [](loadState # "success" => "object" \notin Range(drawn))

C4_Witness ==
    /\ loadState = "pending"
    /\ lastFrameCalls = <<"animate:renderer.render", "animate:controls.update",
                          "animate:renderer.render">>
    /\ "object" \notin Range(drawn)

(* C5: after a successful load there is one material folder for each       *)
(* distinct material referenced by the meshes of the object: a material    *)
(* shared by several meshes has one folder, and every material has one.    *)
C5_OneFolderPerMaterial ==
    loadState = "success" =>
        /\ Cardinality(FoldersOfKind("material")) =
               Cardinality(MeshMaterials(object.nodes))
        /\ \A m \in MeshMaterials(object.nodes) :
               Cardinality({i \in FoldersOfKind("material") : gui[i].target = m}) = 1

C5_Witness ==
    /\ loadState = "success"
    /\ Len(object.nodes) = 3
    /\ object.nodes[2].material = object.nodes[3].material
    /\ Cardinality(FoldersOfKind("material")) = 1

(* C6: giving a light's intensity control the value v sets that light's    *)
(* intensity to v and leaves the three other lights unchanged, in every    *)
(* load state; nothing else, the load callbacks included, changes a        *)
(* light's intensity.                                                      *)
C6_LightControlsIndependent ==
    [][/\ \A p \in LightParams :
            LightingParams'[p] # LightingParams[p] =>
                /\ intensity'[LightOf(p)] = LightingParams'[p]
                /\ \A l \in LightNames \ {LightOf(p)} : intensity'[l] = intensity[l]
       /\ intensity' # intensity => LightingParams' # LightingParams
       /\ loadState' # loadState => intensity' = intensity]_vars

C6_Witness ==
    /\ loadState = "success"
    /\ intensity = [InitialIntensity EXCEPT !["fillLight"] = 10]

(* C7: the folder of a material has a metalness control exactly when the   *)
(* material defines metalness at load time, a roughness control exactly    *)
(* when it defines roughness, and always a color and a wireframe control.  *)
C7_ControlsFollowMaterial ==
    loadState = "success" =>
        \A i \in FoldersOfKind("material") :
            LET controls == Range(gui[i].controls)
                loaded == MaterialPool[gui[i].target]
            IN /\ "metalness" \in controls <=> loaded.metalness # Undefined
               /\ "roughness" \in controls <=> loaded.roughness # Undefined
               /\ "color" \in controls
               /\ "wireframe" \in controls

C7_Witness ==
    /\ loadState = "success"
    /\ \E i \in FoldersOfKind("material") :
           /\ "metalness" \notin Range(gui[i].controls)
           /\ gui[i].params.metalness = 2
           /\ gui[i].params.roughness = 8
    /\ \E i \in FoldersOfKind("material") :
           /\ "metalness" \in Range(gui[i].controls)
           /\ gui[i].params.metalness = 0

(* C8: when the load-success callback has run, controller update included, *)
(* the camera depth is exactly twice the largest dimension of the object's *)
(* bounding box.                                                           *)
C8_CameraDepthTwiceMaxDim ==
    (loadState = "success" /\ Last(callsSinceRender) = "onLoad:controls.update") =>
        cameraZ = 2 * MaxDimOf(object.box)

(* C9: between two consecutive draws the controller's update runs exactly  *)
(* once, and each draw is immediately preceded by an update.               *)
C9_ExactlyOneUpdateBetweenDraws ==
    LET n == Len(lastFrameCalls)
    IN /\ IsUpdate(lastFrameCalls[n - 1])
       /\ lastFrameCalls[1] = "animate:renderer.render" =>
              Cardinality({i \in 1..n : IsUpdate(lastFrameCalls[i])}) = 1

(* C9, amended: each draw is immediately preceded by the one update its    *)
(* own frame makes; between two consecutive draws the only other update    *)
(* is the one the load-success callback makes, at most once.               *)
C9_OneFrameUpdatePerDraw ==
    LET n == Len(lastFrameCalls)
        updates == {i \in 1..n : IsUpdate(lastFrameCalls[i])}
        byLoad == {i \in 1..n : lastFrameCalls[i] = "onLoad:controls.update"}
    IN /\ n >= 2
       /\ lastFrameCalls[n] = "animate:renderer.render"
       /\ lastFrameCalls[n - 1] = "animate:controls.update"
       /\ updates \ byLoad = {n - 1}
       /\ Cardinality(byLoad) <= 1
       /\ Cardinality(updates) = 1 + Cardinality(byLoad)

C9_Witness ==
    lastFrameCalls = <<"animate:renderer.render", "onLoad:controls.update",
                       "animate:controls.update", "animate:renderer.render">>

(* C10: the material folders are titled 'Material 1' to 'Material n' in    *)
(* the order of the set of materials, so no two share a title.             *)
C10_FoldersNumbered ==
    loadState = "success" =>
        LET first == CHOOSE i \in FoldersOfKind("model") : TRUE
            n == Cardinality(FoldersOfKind("material"))
        IN /\ \A k \in 1..n : gui[first - n + k - 1].title = "Material " \o NumStr(k)
           /\ \A i, j \in FoldersOfKind("material") :
                  i # j => gui[i].title # gui[j].title

====
